---- MODULE Spec2Model ----
(***************************************************************************)
(* A model of fireo.models.model.Model: one entity instance, its change    *)
(* tracker (_field_changed), its extra-field bookkeeping (_extra_fields),  *)
(* the dict <-> entity marshalling and the key composer.                   *)
(*                                                                         *)
(* Python values are token sequences: None is <<"None">>, a str is the     *)
(* sequence of its path segments and "/" separators ("" is <<>>), every    *)
(* other value is a one-token sequence.                                    *)
(***************************************************************************)
EXTENDS Naturals, Sequences, FiniteSets, TLC

VARIABLES attrs, xattrs, field_changed, extra_fields, key_cache, parent,
          schema, last, ret

vars == <<attrs, xattrs, field_changed, extra_fields, key_cache, parent,
          schema, last, ret>>

(***************************************************************************)
(* Bounds                                                                  *)
(***************************************************************************)
\* the largest number of keys of a document handed to a load
MaxDocKeys == 2

(***************************************************************************)
(* Python values and strings                                               *)
(***************************************************************************)
None == <<"None">>
EmptyStr == <<>>
Sep == "/"
Placeholder == "@temp_doc_id"
collection_name == <<"users">>

\* raised by a descriptor: fireo.fields.errors.RequiredField
RequiredField == <<"!RequiredField">>

Truthy(v) == v # None /\ v # EmptyStr

RECURSIVE Join(_)
\* '/'.join(list)
Join(l) ==
  IF l = <<>> THEN EmptyStr
  ELSE IF Len(l) = 1 THEN l[1]
  ELSE l[1] \o <<Sep>> \o Join(Tail(l))

RECURSIVE Split(_)
\* str.split('/')
Split(s) ==
  IF \A i \in 1..Len(s) : s[i] # Sep THEN <<s>>
  ELSE LET i == CHOOSE i \in 1..Len(s) :
                   s[i] = Sep /\ \A j \in 1..(i-1) : s[j] # Sep
       IN <<SubSeq(s, 1, i-1)>> \o Split(SubSeq(s, i+1, Len(s)))

\* '@temp_doc_id' in key
HasPlaceholder(k) == \E i \in 1..Len(k) : k[i] = Placeholder

\* mutant: the leading separator is kept
KeepLeadingSep(k) == k

\* k[1:] if k[0] == '/' else k
StripLeadingSep(k) == IF k[1] = Sep THEN Tail(k) ELSE k

\* fireo.utils.utils.get_id
get_id(k) == LET parts == Split(k) IN parts[Len(parts)]

\* fireo.utils.utils.get_parent_doc
get_parent_doc(k) ==
  LET parts == Split(k)
  IN IF Len(parts) <= 2 THEN EmptyStr ELSE Join(SubSeq(parts, 1, Len(parts) - 2))

(***************************************************************************)
(* The Field Registry (_meta) of the entity type                           *)
(***************************************************************************)
\* _meta.field_list, in declaration order
field_order == <<"id", "name", "tags", "updated">>
field_list == {field_order[i] : i \in 1..Len(field_order)}

\* _meta.id: the name of the identifier attribute
id_field_name == "id"

\* field.db_column_name
db_column_name(n) == IF n = "name" THEN "full_name" ELSE n

IsIDField(n) == n = "id"
IsCompositeField(n) == n = "tags"
IsAutoUpdateDateTime(n) == n = "updated"

\* columns for which the registry declines to build an ad hoc field
IgnoredColumns == {"ign"}
NoField == "!nofield"

\* _meta.get_field_by_column_name: the name of the resolved descriptor
get_field_by_column_name(c) ==
  IF \E n \in field_list : db_column_name(n) = c
    THEN CHOOSE n \in field_list : db_column_name(n) = c
  ELSE IF c \in IgnoredColumns THEN NoField
  ELSE c

\* the schemas examined: how the identifier descriptor resolves an absent
\* id, whether it is stored in the document, whether name is required
Schemas ==
  [idMode : {"plain", "default", "required"},
   include_in_document : BOOLEAN,
   nameRequired : BOOLEAN]

GeneratedId == <<"g1">>
Now == <<"now">>

\* field.get_value: encode a value for storage (may raise RequiredField)
get_value(sch, n, v) ==
  IF n = "id" THEN
    IF v # None THEN v
    ELSE IF sch.idMode = "default" THEN GeneratedId
    ELSE IF sch.idMode = "required" THEN RequiredField
    ELSE None
  ELSE IF n = "name" THEN
    IF v = None /\ sch.nameRequired THEN RequiredField ELSE v
  ELSE IF n = "updated" THEN Now
  ELSE v

\* field.field_value: decode a raw document value
field_value(n, raw) == raw

(***************************************************************************)
(* Entities as records                                                     *)
(***************************************************************************)
Self == [attrs |-> attrs, xattrs |-> xattrs, field_changed |-> field_changed,
         extra_fields |-> extra_fields, key_cache |-> key_cache, parent |-> parent]

\* getattr(self, name, None)
getattr(e, n) ==
  IF n \in field_list THEN e.attrs[n]
  ELSE IF n \in DOMAIN e.xattrs THEN e.xattrs[n]
  ELSE None

hasattr(e, n) == n \in field_list \/ n \in DOMAIN e.xattrs

\* object.__setattr__
raw_setattr(e, n, v) ==
  IF n \in field_list THEN [e EXCEPT !.attrs[n] = v]
  ELSE [e EXCEPT !.xattrs = (n :> v) @@ e.xattrs]

\* mutant: every assigned name is tracked as changed, declared or not
setattr_all(e, n, v) ==
  raw_setattr([e EXCEPT !.field_changed = e.field_changed \cup {n}], n, v)

\* mutant: an assignment that is not tracked
setattr_untracked(e, n, v) == raw_setattr(e, n, v)

\* Model.__setattr__
setattr(e, n, v) ==
  LET e1 == IF n \in field_list
              THEN [e EXCEPT !.field_changed = e.field_changed \cup {n}]
              ELSE e
  IN raw_setattr(e1, n, v)

\* mutant: the stored path records no extra attribute
set_orig_attr_untracked(e, n, v) == raw_setattr(e, n, v)

\* mutant: the stored path marks declared attributes as changed
set_orig_attr_tracking(e, n, v) ==
  LET e1 == IF n # "_id" /\ n \notin field_list
              THEN [e EXCEPT !.extra_fields = e.extra_fields \cup {n}]
              ELSE [e EXCEPT !.field_changed = e.field_changed \cup {n}]
  IN raw_setattr(e1, n, v)

\* Model._set_orig_attr
set_orig_attr(e, n, v) ==
  LET e1 == IF n # "_id" /\ n \notin field_list
              THEN [e EXCEPT !.extra_fields = e.extra_fields \cup {n}]
              ELSE e
  IN raw_setattr(e1, n, v)

\* delattr(self, name) for each name of a set
delattrs(e, names) ==
  [e EXCEPT !.xattrs = [n \in (DOMAIN e.xattrs) \ names |-> e.xattrs[n]]]

RECURSIVE SetAttrs(_, _)
\* setattr(self, k, v) for every keyword argument
SetAttrs(e, kwargs) ==
  IF DOMAIN kwargs = {} THEN e
  ELSE LET k == CHOOSE n \in DOMAIN kwargs : TRUE
       IN SetAttrs(setattr(e, k, kwargs[k]),
                   [n \in (DOMAIN kwargs) \ {k} |-> kwargs[n]])

\* Model.__init__(parent=p, **kwargs); the schema has no nested-model field
Construct(p, kwargs) ==
  SetAttrs([attrs |-> [n \in field_list |-> None],
            xattrs |-> << >>,
            field_changed |-> {},
            extra_fields |-> {},
            key_cache |-> None,
            parent |-> p],
           kwargs)

(***************************************************************************)
(* Change predicate                                                        *)
(***************************************************************************)
\* mutant: an auto-update timestamp counts as changed only when assigned
is_field_unchanged_noauto(e, n) ==
  \/ n \in e.field_changed
  \/ e.attrs[n] # None /\ IsCompositeField(n)

\* Model._is_field_unchanged
is_field_unchanged(e, n) ==
  \/ n \in e.field_changed
  \/ e.attrs[n] # None /\ IsCompositeField(n)
  \/ IsAutoUpdateDateTime(n)

(***************************************************************************)
(* Serializer: entity -> dict                                              *)
(***************************************************************************)
\* mutant: unchanged fields are encoded even under ignore_unchanged
Encoded_unfiltered(sch, e, ignore_unchanged) ==
  {n \in field_list : ~(IsIDField(n) /\ ~sch.include_in_document)}

\* mutant: the identifier field is encoded like any other field
Encoded_withid(sch, e, ignore_unchanged) ==
  {n \in field_list : ~ignore_unchanged \/ is_field_unchanged(e, n)}

\* the fields to_db_dict reaches the encoding step for
Encoded(sch, e, ignore_unchanged) ==
  {n \in field_list :
     /\ ~(IsIDField(n) /\ ~sch.include_in_document)
     /\ (~ignore_unchanged \/ is_field_unchanged(e, n))}

\* mutant: an absent value is left out even when the field passes the change
\* predicate
to_db_dict_dropnone(sch, e, ignore_unchanged, ignore_default_none) ==
  LET enc == Encoded(sch, e, ignore_unchanged)
      failing == {i \in 1..Len(field_order) :
                    /\ field_order[i] \in enc
                    /\ get_value(sch, field_order[i], e.attrs[field_order[i]]) = RequiredField}
      kept == {n \in enc :
                 \/ get_value(sch, n, e.attrs[n]) # None
                 \/ ~ignore_default_none}
  IN IF failing # {}
       THEN [status |-> "ModelSerializingWrappedError", dict |-> << >>,
             path |-> field_order[CHOOSE i \in failing : \A j \in failing : i <= j]]
       ELSE [status |-> "ok",
             dict |-> [c \in {db_column_name(n) : n \in kept} |->
                         LET n == CHOOSE m \in kept : db_column_name(m) = c
                         IN get_value(sch, n, e.attrs[n])],
             path |-> ""]

\* Model.to_db_dict: [status, dict, path]
to_db_dict(sch, e, ignore_unchanged, ignore_default_none) ==
  LET enc == Encoded(sch, e, ignore_unchanged)
      failing == {i \in 1..Len(field_order) :
                    /\ field_order[i] \in enc
                    /\ get_value(sch, field_order[i], e.attrs[field_order[i]]) = RequiredField}
      kept == {n \in enc :
                 \/ get_value(sch, n, e.attrs[n]) # None
                 \/ ~ignore_default_none
                 \/ is_field_unchanged(e, n)}
  IN IF failing # {}
       THEN [status |-> "ModelSerializingWrappedError", dict |-> << >>,
             path |-> field_order[CHOOSE i \in failing : \A j \in failing : i <= j]]
       ELSE [status |-> "ok",
             dict |-> [c \in {db_column_name(n) : n \in kept} |->
                         LET n == CHOOSE m \in kept : db_column_name(m) = c
                         IN get_value(sch, n, e.attrs[n])],
             path |-> ""]

\* Model._get_fields
get_fields(e, ignore_unchanged, ignore_default_none) ==
  LET kept == {n \in field_list :
                 /\ (~ignore_unchanged \/ is_field_unchanged(e, n))
                 /\ (~ignore_default_none \/ is_field_unchanged(e, n) \/ e.attrs[n] # None)}
  IN [n \in kept |-> e.attrs[n]]

(***************************************************************************)
(* Serializer: dict -> entity                                              *)
(***************************************************************************)
\* populate_from_doc_dict, second step: the keys of the document outside the
\* declared schema
new_extra_fields_names(doc) == (DOMAIN doc) \ field_list

\* the descriptors populate_from_doc_dict walks: declared fields, then the
\* resolved extra fields
PopulateChain(doc, by_column_name) ==
  field_list \cup
    ({get_field_by_column_name(c) : c \in new_extra_fields_names(doc)} \ {NoField})

field_name_in_dict(n, by_column_name) ==
  IF by_column_name THEN db_column_name(n) ELSE n

\* the fields populate_from_doc_dict assigns
PopulateAssigned(e, doc, merge, by_column_name) ==
  {n \in PopulateChain(doc, by_column_name) :
     \/ field_name_in_dict(n, by_column_name) \in DOMAIN doc
     \/ ~merge /\ getattr(e, n) # None}

RECURSIVE AssignAll(_, _, _, _, _)
AssignAll(e, names, doc, stored, by_column_name) ==
  IF names = {} THEN e
  ELSE LET n == CHOOSE m \in names : TRUE
           k == field_name_in_dict(n, by_column_name)
           raw == IF k \in DOMAIN doc THEN doc[k] ELSE None
           v == field_value(n, raw)
           e1 == IF stored THEN set_orig_attr(e, n, v) ELSE setattr(e, n, v)
       IN AssignAll(e1, names \ {n}, doc, stored, by_column_name)

\* mutant: the tracked extra attributes survive every load
drop_old_extras_never(e, merge) == e

\* mutant: the tracked extra attributes are dropped on every load
drop_old_extras_always(e, merge) ==
  [delattrs(e, e.extra_fields \ field_list) EXCEPT !.extra_fields = {}]

\* populate_from_doc_dict, first step: without merge, the tracked extra
\* attributes are deleted from the instance and the extra-field set is emptied
drop_old_extras(e, merge) ==
  IF ~merge
    THEN [delattrs(e, e.extra_fields \ field_list) EXCEPT !.extra_fields = {}]
    ELSE e

\* mutant: the load is refused only when no key of the document is declared
rejects_unknown_fields_only(doc, by_column_name) ==
  DOMAIN doc # {} /\ (DOMAIN doc) \cap field_list = {} /\ ~by_column_name

\* populate_from_doc_dict raises NotImplementedError
rejects_unknown_fields(doc, by_column_name) ==
  new_extra_fields_names(doc) # {} /\ ~by_column_name

\* mutant: the changed set survives a full stored load
clear_if_replaced_never(e, stored, merge) == e

\* populate_from_doc_dict, last step: a full stored load leaves nothing changed
clear_if_replaced(e, stored, merge) ==
  IF ~merge /\ stored THEN [e EXCEPT !.field_changed = {}] ELSE e

\* mutant: the unknown keys are refused only after the assignments
populate_then_reject(e, doc, stored, merge, by_column_name) ==
  LET e1 == drop_old_extras(e, merge)
      e2 == AssignAll(e1, PopulateAssigned(e1, doc, merge, by_column_name),
                      doc, stored, by_column_name)
  IN IF rejects_unknown_fields(doc, by_column_name)
       THEN [status |-> "NotImplementedError", e |-> e2]
       ELSE [status |-> "ok", e |-> clear_if_replaced(e2, stored, merge)]

\* Model.populate_from_doc_dict: [status, e]
populate_from_doc_dict(e, doc, stored, merge, by_column_name) ==
  LET e1 == drop_old_extras(e, merge)
  IN IF rejects_unknown_fields(doc, by_column_name)
       THEN [status |-> "NotImplementedError", e |-> e1]
       ELSE LET e2 == AssignAll(e1, PopulateAssigned(e1, doc, merge, by_column_name),
                                doc, stored, by_column_name)
            IN [status |-> "ok", e |-> clear_if_replaced(e2, stored, merge)]

(***************************************************************************)
(* Key composer                                                            *)
(***************************************************************************)
\* Model._id (getter): [value, e]
id_get(sch, e) ==
  LET raw_value == e.attrs[id_field_name]
      value == get_value(sch, id_field_name, raw_value)
  IN [value |-> value,
      e |-> IF raw_value = None /\ value # None /\ value # RequiredField
              THEN setattr(e, id_field_name, value)
              ELSE e]

\* Model._set_key
set_key(e, doc_id) ==
  [e EXCEPT !.key_cache = StripLeadingSep(Join(<<e.parent, collection_name, doc_id>>))]

\* mutant: the key is composed for every identifier, empty or absent too
id_set_always(e, doc_id) ==
  set_key(setattr(e, id_field_name, doc_id),
          IF doc_id = None THEN EmptyStr ELSE doc_id)

\* Model._id (setter)
id_set(e, doc_id) ==
  LET e1 == setattr(e, id_field_name, doc_id)
  IN IF Truthy(doc_id) THEN set_key(e1, doc_id) ELSE e1

\* mutant: the composed key is cached by the read
key_caching(sch, e) ==
  IF Truthy(e.key_cache) THEN [value |-> e.key_cache, e |-> e]
  ELSE LET g == id_get(sch, e)
           k == IF g.value = RequiredField \/ g.value = None
                  THEN Join(<<e.parent, collection_name, <<Placeholder>> >>)
                  ELSE Join(<<e.parent, collection_name, g.value>>)
       IN [value |-> StripLeadingSep(k),
           e |-> [g.e EXCEPT !.key_cache = StripLeadingSep(k)]]

\* Model.key (property): [value, e]
key(sch, e) ==
  IF Truthy(e.key_cache) THEN [value |-> e.key_cache, e |-> e]
  ELSE LET g == id_get(sch, e)
           k == IF g.value = RequiredField \/ g.value = None
                  THEN Join(<<e.parent, collection_name, <<Placeholder>> >>)
                  ELSE Join(<<e.parent, collection_name, g.value>>)
       IN [value |-> StripLeadingSep(k), e |-> g.e]

\* Model.to_dict: [status, dict, e]
to_dict(sch, e) ==
  LET d == to_db_dict(sch, e, FALSE, FALSE)
      k1 == key(sch, e)
      k2 == key(sch, k1.e)
  IN IF d.status # "ok"
       THEN [status |-> d.status, dict |-> << >>, e |-> e]
       ELSE [status |-> "ok",
             dict |-> ("key" :> k2.value) @@ (id_field_name :> get_id(k1.value)) @@ d.dict,
             e |-> k2.e]

(***************************************************************************)
(* Inputs                                                                  *)
(***************************************************************************)
\* the non-absent values of the name, tags, updated and extra attributes
Vals == {<<"v1">>}
Ids == {<<"u1">>}
Parents == {EmptyStr, <<"a">>}

\* values an attribute can be assigned
AttrVals(n) == IF n = "id" THEN {None, EmptyStr} \cup Ids ELSE {None} \cup Vals

\* the attributes the marshalling specification assigns, and its documents
LoadAttrs == {"name", "tags"}
DocKeys == {"name", "full_name", "x", "ign"}
Docs ==
  UNION {[ks -> {None} \cup Vals] :
           ks \in {s \in SUBSET DocKeys : Cardinality(s) <= MaxDocKeys}}
LoadSchema == [idMode |-> "plain", include_in_document |-> FALSE, nameRequired |-> FALSE]

\* the attributes the key specification assigns, and its explicit keys
KeyAttrs == {"id", "name"}
ExplicitKeys ==
  {<<"users", Sep, "u1">>, <<"a", Sep, "users", Sep, "u1">>, <<"users", Sep, Placeholder>>,
   <<"a", Sep, "other", Sep, "u1">>}

NoFlags == {}
Flags(stored, merge, by_column_name) ==
  (IF stored THEN {"stored"} ELSE {}) \cup (IF merge THEN {"merge"} ELSE {})
    \cup (IF by_column_name THEN {"by_column_name"} ELSE {})
DumpFlags(ignore_unchanged, ignore_default_none) ==
  (IF ignore_unchanged THEN {"ignore_unchanged"} ELSE {})
    \cup (IF ignore_default_none THEN {"ignore_default_none"} ELSE {})

Last(op, status, flags, keys, arg) ==
  [op |-> op, status |-> status, flags |-> flags, keys |-> keys, arg |-> arg]

\* the instance variables become those of entity e
Become(e) ==
  /\ attrs' = e.attrs
  /\ xattrs' = e.xattrs
  /\ field_changed' = e.field_changed
  /\ extra_fields' = e.extra_fields
  /\ key_cache' = e.key_cache
  /\ parent' = e.parent

(***************************************************************************)
(* Initial state: a freshly constructed entity, cls(parent=p, **kwargs)    *)
(***************************************************************************)
Kwargs(names) ==
  UNION {{kw \in [ks -> {None, EmptyStr} \cup Vals \cup Ids] :
            \A k \in ks : kw[k] \in AttrVals(k)} :
           ks \in {s \in SUBSET names : Cardinality(s) <= 1}}

Constructed(p, kw) ==
  LET e == Construct(p, kw)
  IN /\ attrs = e.attrs
     /\ xattrs = e.xattrs
     /\ field_changed = e.field_changed
     /\ extra_fields = e.extra_fields
     /\ key_cache = e.key_cache
     /\ parent = e.parent
     /\ last = Last("init", "ok", NoFlags, DOMAIN kw, p)
     /\ ret = << >>

Init ==
  /\ schema = LoadSchema
  /\ \E kw \in Kwargs(LoadAttrs) : Constructed(EmptyStr, kw)

KeyInit ==
  /\ schema \in Schemas
  /\ \E p \in Parents, kw \in Kwargs(KeyAttrs) : Constructed(p, kw)

(***************************************************************************)
(* Operations                                                              *)
(***************************************************************************)
\* entity.<n> = v, for a declared attribute n
SetAttr(n, v) ==
  /\ Become(setattr(Self, n, v))
  /\ last' = Last("setattr", "ok", NoFlags, {n}, v)
  /\ ret' = << >>
  /\ UNCHANGED schema

\* entity.populate_from_doc_dict(doc, stored, merge, by_column_name)
Populate(doc, stored, merge, by_column_name) ==
  LET r == populate_from_doc_dict(Self, doc, stored, merge, by_column_name)
  IN /\ Become(r.e)
     /\ last' = Last("populate", r.status, Flags(stored, merge, by_column_name),
                     DOMAIN doc, None)
     /\ ret' = << >>
     /\ UNCHANGED schema

\* entity.merge_with_dict(doc, by_column_name)
MergeWithDict(doc, by_column_name) ==
  LET r == populate_from_doc_dict(Self, doc, FALSE, TRUE, by_column_name)
  IN /\ Become(r.e)
     /\ last' = Last("populate", r.status, Flags(FALSE, TRUE, by_column_name),
                     DOMAIN doc, None)
     /\ ret' = << >>
     /\ UNCHANGED schema

\* entity = cls.from_dict(doc, by_column_name); the instance followed from
\* here on is the returned one (none is returned when the load raises)
FromDict(doc, by_column_name) ==
  LET r == populate_from_doc_dict(Construct(EmptyStr, << >>), doc, FALSE, FALSE,
                                  by_column_name)
  IN /\ IF r.status = "ok" THEN Become(r.e)
        ELSE UNCHANGED <<attrs, xattrs, field_changed, extra_fields, key_cache, parent>>
     /\ last' = Last("from_dict", r.status, Flags(FALSE, FALSE, by_column_name),
                     DOMAIN doc, None)
     /\ ret' = << >>
     /\ UNCHANGED schema

\* entity.to_db_dict(DumpOptions(ignore_unchanged, ignore_default_none))
ToDbDict(ignore_unchanged, ignore_default_none) ==
  LET r == to_db_dict(schema, Self, ignore_unchanged, ignore_default_none)
  IN /\ last' = Last("to_db_dict", r.status,
                     DumpFlags(ignore_unchanged, ignore_default_none), {},
                     IF r.status = "ok" THEN None ELSE <<r.path>>)
     /\ ret' = r.dict
     /\ UNCHANGED <<attrs, xattrs, field_changed, extra_fields, key_cache, parent, schema>>

\* entity.to_dict()
ToDict ==
  LET r == to_dict(schema, Self)
  IN /\ Become(r.e)
     /\ last' = Last("to_dict", r.status, NoFlags, {}, None)
     /\ ret' = r.dict
     /\ UNCHANGED schema

\* cls.from_dict(entity.to_dict()): ret is the attributes of the returned entity
RoundTrip ==
  LET d == to_dict(schema, Self)
      r == populate_from_doc_dict(Construct(EmptyStr, << >>), d.dict, FALSE, FALSE, FALSE)
  IN /\ Become(d.e)
     /\ last' = Last("roundtrip", IF d.status # "ok" THEN d.status ELSE r.status,
                     NoFlags, DOMAIN d.dict, None)
     /\ ret' = IF d.status = "ok" /\ r.status = "ok" THEN r.e.attrs ELSE << >>
     /\ UNCHANGED schema

\* entity.key
ReadKey ==
  LET r == key(schema, Self)
  IN /\ Become(r.e)
     /\ last' = Last("key", "ok", NoFlags, {}, None)
     /\ ret' = ("key" :> r.value)
     /\ UNCHANGED schema

\* entity._id = doc_id
SetId(doc_id) ==
  /\ Become(id_set(Self, doc_id))
  /\ last' = Last("set_id", "ok", NoFlags, {}, doc_id)
  /\ ret' = << >>
  /\ UNCHANGED schema

\* mutant: the parent is not re-derived from the key
update_keeps_parent(sch, e, karg) ==
  LET own == key(sch, e)
      k == IF Truthy(karg) THEN karg ELSE own.value
      e1 == IF Truthy(karg) THEN e ELSE own.e
  IN IF k # None /\ ~HasPlaceholder(k)
       THEN [status |-> "delegated", e |-> id_set(e1, get_id(k))]
     ELSE IF k = None /\ HasPlaceholder(key(sch, e1).value)
       THEN [status |-> "InvalidKey", e |-> e1]
     ELSE [status |-> "delegated", e |-> e1]

\* Model.update: [status, e, key]
update(sch, e, karg) ==
  LET own == key(sch, e)
      k == IF Truthy(karg) THEN karg ELSE own.value
      e1 == IF Truthy(karg) THEN e ELSE own.e
  IN IF k # None /\ ~HasPlaceholder(k)
       THEN [status |-> "delegated",
             e |-> id_set([e1 EXCEPT !.parent = get_parent_doc(k)], get_id(k))]
     ELSE IF k = None /\ HasPlaceholder(key(sch, e1).value)
       THEN [status |-> "InvalidKey", e |-> e1]
     ELSE [status |-> "delegated", e |-> e1]

\* entity.update(key=karg)
Update(karg) ==
  LET r == update(schema, Self, karg)
  IN /\ Become(r.e)
     /\ last' = Last("update", r.status, NoFlags, {}, karg)
     /\ ret' = IF r.status = "delegated" THEN ("key" :> key(schema, r.e).value) ELSE << >>
     /\ UNCHANGED schema

\* Model.refresh: [status, e]
refresh(sch, e) ==
  LET r == key(sch, e)
  IN IF r.value = None
       THEN [status |-> "ValueError", e |-> r.e]
       ELSE [status |-> "delegated", e |-> r.e]

\* entity.refresh()
Refresh ==
  LET r == refresh(schema, Self)
  IN /\ Become(r.e)
     /\ last' = Last("refresh", r.status, NoFlags, {}, None)
     /\ ret' = IF r.status = "delegated" THEN ("key" :> key(schema, r.e).value) ELSE << >>
     /\ UNCHANGED schema

\* entity.save(): ret is the payload handed to the create operation
Save ==
  /\ last' = Last("save", "delegated", NoFlags, {}, None)
  /\ ret' = get_fields(Self, FALSE, TRUE)
  /\ UNCHANGED <<attrs, xattrs, field_changed, extra_fields, key_cache, parent, schema>>

(***************************************************************************)
(* Specifications                                                          *)
(***************************************************************************)
\* marshalling: assignments, loads and dumps of one entity
Next ==
  \/ \E n \in LoadAttrs : \E v \in AttrVals(n) : SetAttr(n, v)
  \/ \E d \in Docs, s \in BOOLEAN, m \in BOOLEAN, b \in BOOLEAN : Populate(d, s, m, b)
  \/ \E d \in Docs, b \in BOOLEAN : MergeWithDict(d, b)
  \/ \E d \in Docs, b \in BOOLEAN : FromDict(d, b)
  \/ \E iu \in BOOLEAN, idn \in BOOLEAN : ToDbDict(iu, idn)

Spec == Init /\ [][Next]_vars

\* key composition and the lifecycle operations of one entity
KeyNext ==
  \/ \E n \in KeyAttrs : \E v \in AttrVals(n) : SetAttr(n, v)
  \/ ReadKey
  \/ \E i \in {None, EmptyStr} \cup Ids : SetId(i)
  \/ \E k \in {None} \cup ExplicitKeys : Update(k)
  \/ Refresh
  \/ ToDict
  \/ RoundTrip
  \/ Save

KeySpec == KeyInit /\ [][KeyNext]_vars

\* the documents the lifecycle specification loads: the identifier and the
\* extra field x
LifeDocKeys == {"id", "x"}
LifeDocs ==
  UNION {{d \in [ks -> {None} \cup Ids \cup Vals] :
            \A k \in ks : d[k] \in (IF k = "id" THEN {None} \cup Ids ELSE Vals)} :
           ks \in {s \in SUBSET LifeDocKeys : Cardinality(s) <= MaxDocKeys}}

\* the lifecycle operations interleaved with loads
LifeNext ==
  \/ KeyNext
  \/ \E d \in LifeDocs, s \in BOOLEAN, m \in BOOLEAN, b \in BOOLEAN : Populate(d, s, m, b)

\* a freshly constructed entity of a schema whose name is optional
LifeInit ==
  /\ schema \in {sch \in Schemas : ~sch.nameRequired}
  /\ \E p \in Parents, kw \in Kwargs(KeyAttrs) : Constructed(p, kw)

LifeSpec == LifeInit /\ [][LifeNext]_vars

\* the attributes the dump specification assigns, and its documents
DumpAttrs == {"id", "name", "tags"}
DumpDocs ==
  UNION {[ks -> Vals] :
           ks \in {s \in SUBSET {"name", "tags"} : Cardinality(s) <= MaxDocKeys}}

\* a freshly constructed entity of any schema, without parent
DumpInit ==
  /\ schema \in Schemas
  /\ \E kw \in Kwargs(DumpAttrs) : Constructed(EmptyStr, kw)

\* dumps of one entity between assignments, loads and identifier reads
DumpNext ==
  \/ \E n \in DumpAttrs : \E v \in AttrVals(n) : SetAttr(n, v)
  \/ \E d \in DumpDocs, s \in BOOLEAN, m \in BOOLEAN : Populate(d, s, m, FALSE)
  \/ ReadKey
  \/ \E iu \in BOOLEAN, idn \in BOOLEAN : ToDbDict(iu, idn)
  \/ Save

DumpSpec == DumpInit /\ [][DumpNext]_vars

(***************************************************************************)
(* Properties                                                              *)
(***************************************************************************)
IsLoad(l) == l.op = "populate"
Stored(l) == "stored" \in l.flags
Merge(l) == "merge" \in l.flags
ByColumnName(l) == "by_column_name" \in l.flags

\* the declared attributes whose lookup key the document of load l carries
Carried(l) ==
  {n \in field_list : field_name_in_dict(n, ByColumnName(l)) \in l.keys}

\* the plain scalar fields: neither composite nor an auto-update timestamp
PlainScalars == {n \in field_list : ~IsCompositeField(n) /\ ~IsAutoUpdateDateTime(n)}

FullStoredLoad(l) == IsLoad(l) /\ l.status = "ok" /\ Stored(l) /\ ~Merge(l)

\* C1: a populate_from_doc_dict(d, stored=true, merge=false) that returns
\* leaves changedAttributes empty, and the to_db_dict(ignore_unchanged=true)
\* taken right after it succeeds and carries the column of no plain scalar
\* field, whatever was assigned before the load.
C1_FullStoredLoadLeavesNothingChanged ==
  [][ /\ FullStoredLoad(last') => field_changed' = {}
      /\ ( /\ FullStoredLoad(last)
           /\ last'.op = "to_db_dict"
           /\ "ignore_unchanged" \in last'.flags )
         => /\ last'.status = "ok"
            /\ \A n \in PlainScalars : db_column_name(n) \notin DOMAIN ret' ]_vars

\* a full stored load has just brought a value for name into the entity
C1_Witness ==
  /\ FullStoredLoad(last)
  /\ "full_name" \in last.keys
  /\ attrs["name"] # None
  /\ field_changed = {}

\* C2: an assignment to a declared attribute adds its name to
\* changedAttributes and removes none: for a plain assignment, for the
\* constructor's keyword arguments, and for every declared attribute that a
\* populate_from_doc_dict / from_dict with stored=false takes from the document.
C2_AssignmentMarksChanged ==
  /\ [](last.op = "init" => field_changed = last.keys)
  /\ [][ /\ last'.op = "setattr"
            => /\ last'.keys \subseteq field_changed'
               /\ field_changed \subseteq field_changed'
         /\ (IsLoad(last') /\ last'.status = "ok" /\ ~Stored(last'))
            => /\ Carried(last') \subseteq field_changed'
               /\ field_changed \subseteq field_changed'
         /\ (last'.op = "from_dict" /\ last'.status = "ok")
            => Carried(last') \subseteq field_changed' ]_vars

\* an unstored load has just assigned name, on top of an earlier change to tags
C2_Witness ==
  /\ IsLoad(last) /\ last.status = "ok" /\ ~Stored(last)
  /\ "name" \in Carried(last)
  /\ {"name", "tags"} \subseteq field_changed

\* C3: populate_from_doc_dict(d, merge=true), whatever stored and
\* by_column_name are and whether or not it raises, keeps every tracked extra
\* attribute tracked and readable (with its value when d does not carry it) and
\* keeps every name of changedAttributes.
C3_MergeKeepsExtrasAndChanges ==
  [][ (IsLoad(last') /\ Merge(last'))
      => /\ extra_fields \subseteq extra_fields'
         /\ \A n \in extra_fields :
              /\ n \in DOMAIN xattrs'
              /\ n \notin last'.keys => xattrs'[n] = xattrs[n]
         /\ field_changed \subseteq field_changed' ]_vars

\* a merge whose document lacks the tracked extra attribute x, on an entity
\* with a changed attribute
C3_Witness ==
  /\ IsLoad(last) /\ Merge(last) /\ last.status = "ok"
  /\ "x" \in extra_fields /\ "x" \in DOMAIN xattrs /\ "x" \notin last.keys
  /\ last.keys # {}
  /\ field_changed # {}

\* C4 as stated: changedAttributes after populate_from_doc_dict(d, merge=true)
\* is exactly the set it was before the call.
C4_Original ==
  [][ (IsLoad(last') /\ Merge(last')) => field_changed' = field_changed ]_vars

\* C4 amended: a merge never removes a name from changedAttributes; with
\* stored=true, or when it raises, it leaves the set exactly as it was; with
\* stored=false (merge_with_dict) a merge that returns adds exactly the declared
\* attributes whose lookup key the document carries.
C4_MergeChangeTracking ==
  [][ (IsLoad(last') /\ Merge(last'))
      => IF Stored(last') \/ last'.status # "ok"
           THEN field_changed' = field_changed
           ELSE field_changed' = field_changed \cup Carried(last') ]_vars

\* a stored merge has just brought a value for name that is not marked changed
C4_Witness ==
  /\ IsLoad(last) /\ Merge(last) /\ Stored(last) /\ last.status = "ok"
  /\ "name" \in Carried(last)
  /\ attrs["name"] # None
  /\ "name" \notin field_changed

\* C5 as stated: from_dict(to_dict(e)) succeeds whenever to_dict(e) does, and
\* the returned entity has the value of every attribute of e that was set to a
\* non-absent value.
C5_RoundTrip ==
  (last.op = "roundtrip" /\ last.status # "ModelSerializingWrappedError")
  => /\ last.status = "ok"
     /\ \A n \in field_changed : attrs[n] # None => ret[n] = attrs[n]

\* the key of the entity as the key property returns it in this state
KeyValue == key(schema, Self).value

\* the identifier is resolvable: set, or produced by the descriptor
IdResolvable == id_get(schema, Self).value \notin {None, RequiredField}

\* C6 as stated: update() without a key argument, on an entity whose composed
\* key contains the placeholder, ends with the invalid-key error and does not
\* reach the update operation of the persistence collaborator.
C6_UpdateUnsavedFails ==
  (last.op = "update" /\ last.arg = None /\ HasPlaceholder(KeyValue))
  => last.status = "InvalidKey"

\* C7 as stated: refresh() on an entity with no cached key and no resolvable
\* identifier ends with the missing-key error and does not reach the refresh
\* operation of the persistence collaborator.
C7_RefreshWithoutKeyFails ==
  (last.op = "refresh" /\ ~Truthy(key_cache) /\ ~IdResolvable)
  => last.status = "ValueError"

\* C8: a load by attribute name (by_column_name=false), through
\* populate_from_doc_dict or from_dict and for every stored and merge, raises
\* the unknown-fields error exactly when the document has a key that is not a
\* declared attribute name.
C8_StrictLoadRejectsUnknownFields ==
  ((IsLoad(last) \/ last.op = "from_dict") /\ ~ByColumnName(last))
  => (last.status = "NotImplementedError" <=> ~(last.keys \subseteq field_list))

\* a strict stored merge refused a document that mixes a declared attribute
\* with an unknown key
C8_Witness ==
  /\ IsLoad(last) /\ ~ByColumnName(last) /\ Stored(last) /\ Merge(last)
  /\ last.status = "NotImplementedError"
  /\ "name" \in last.keys /\ "x" \in last.keys

\* the keys of the document of load l that the registry resolves to an ad hoc
\* descriptor: outside the schema and not ignored
ResolvedExtras(l) ==
  {c \in l.keys \ field_list :
     get_field_by_column_name(c) \notin field_list \cup {NoField}}

IsColumnLoad(l) == (IsLoad(l) \/ l.op = "from_dict") /\ ByColumnName(l)

\* C9 as stated: every load by column name succeeds, makes each resolved extra
\* field readable and puts its name in extraAttributes, also when stored is
\* false.
C9_Original ==
  IsColumnLoad(last)
  => /\ last.status = "ok"
     /\ \A c \in ResolvedExtras(last) : c \in DOMAIN xattrs /\ c \in extra_fields

\* C9 amended: every load by column name succeeds and makes each resolved
\* extra field readable; with stored=true its name is put in extraAttributes;
\* with stored=false (from_dict, merge_with_dict) its name is not added to
\* extraAttributes: it is there afterwards only if a merge found it there.
C9_ColumnLoadOfExtraField ==
  [][ IsColumnLoad(last')
      => /\ last'.status = "ok"
         /\ \A c \in ResolvedExtras(last') :
              /\ c \in DOMAIN xattrs'
              /\ Stored(last') => c \in extra_fields'
              /\ ~Stored(last') =>
                   (c \in extra_fields' <=> (IsLoad(last') /\ Merge(last') /\ c \in extra_fields)) ]_vars

\* a stored load by column name has just brought the extra field x
C9_Witness ==
  /\ IsLoad(last) /\ ByColumnName(last) /\ Stored(last) /\ last.status = "ok"
  /\ "x" \in ResolvedExtras(last)
  /\ "x" \in DOMAIN xattrs /\ xattrs["x"] # None
  /\ "x" \in extra_fields

\* the last segment of a composed key: the resolved identifier, or the
\* placeholder when there is none
IdSegment ==
  IF IdResolvable THEN id_get(schema, Self).value ELSE <<Placeholder>>

\* parent/collection/id, written out
ComposedKey(p, i) ==
  IF p = EmptyStr THEN collection_name \o <<Sep>> \o i
  ELSE p \o <<Sep>> \o collection_name \o <<Sep>> \o i

\* C10 as stated: in every state key is parent/collection/id for the current
\* parent and identifier (the placeholder when none is resolvable), without
\* empty segments and without a leading separator.
C10_Original ==
  /\ KeyValue[1] # Sep
  /\ \A i \in 1..Len(Split(KeyValue)) : Split(KeyValue)[i] # EmptyStr
  /\ IdSegment # EmptyStr => KeyValue = ComposedKey(parent, IdSegment)

\* C10 amended: in every state key has no leading separator; while no key is
\* cached it is parent/collection/id for the current parent and identifier,
\* with the placeholder for an unresolvable identifier and only the separator
\* of an empty parent removed (an empty-string identifier leaves a trailing
\* separator); a cached key is returned as it was composed, for the current
\* parent and the non-empty identifier given to the identifier setter, even
\* after the identifier attribute was reassigned.
C10_KeyForm ==
  /\ KeyValue[1] # Sep
  /\ ~Truthy(key_cache) => KeyValue = ComposedKey(parent, IdSegment)
  /\ Truthy(key_cache) =>
       /\ KeyValue = key_cache
       /\ \E i \in Ids \cup {GeneratedId} : key_cache = ComposedKey(parent, i)

\* key was just read on an entity with parent "a" and identifier "u1" and no
\* cached key
C10_Witness ==
  /\ last.op = "key" /\ ret["key"] = <<"a", Sep, "users", Sep, "u1">>
  /\ ~Truthy(key_cache)
  /\ parent = <<"a">> /\ attrs["id"] = <<"u1">>

\* C11: after a populate_from_doc_dict(d, stored=true, merge=false,
\* by_column_name=true) that returns, extraAttributes is exactly the set of the
\* keys of d outside the schema that the registry resolved to an ad hoc
\* descriptor (no declared name, nothing left from an earlier load), and every
\* extra attribute tracked before that d does not carry is gone from the
\* instance.
C11_ReplaceLoadRederivesExtras ==
  [][ (FullStoredLoad(last') /\ ByColumnName(last'))
      => /\ extra_fields' = ResolvedExtras(last')
         /\ extra_fields' \cap field_list = {}
         /\ \A n \in extra_fields \ last'.keys : n \notin DOMAIN xattrs' ]_vars

\* a full stored load by column name has just brought the column of the
\* declared attribute name together with the extra field x
C11_Witness ==
  /\ FullStoredLoad(last) /\ ByColumnName(last)
  /\ last.keys = {"full_name", "x"}
  /\ extra_fields = {"x"}
  /\ DOMAIN xattrs = {"x"}

\* C12: over every sequence of construction, assignments, loads with any
\* flags (column-name loads of extra fields included), identifier reads and
\* writes, and update, changedAttributes holds only declared attribute names,
\* and the names of extra attributes are recorded in extraAttributes only.
C12_ChangedNamesAreDeclared ==
  /\ field_changed \subseteq field_list
  /\ extra_fields \cap field_list = {}
  /\ DOMAIN xattrs \cap field_changed = {}

\* an entity that was updated under a key carries the extra field x from an
\* untracked column-name load, next to a changed declared attribute
C12_Witness ==
  /\ Truthy(key_cache)
  /\ "x" \in DOMAIN xattrs
  /\ "x" \notin extra_fields
  /\ "id" \in field_changed

\* the change predicate as the serializer's rule states it: the field is in
\* changedAttributes, or it is a map/list/nested field holding a value, or it
\* is an auto-update timestamp
PassesChangePredicate(n) ==
  \/ n \in field_changed
  \/ IsCompositeField(n) /\ attrs[n] # None
  \/ IsAutoUpdateDateTime(n)

IgnoreUnchanged(l) == "ignore_unchanged" \in l.flags
IgnoreDefaultNone(l) == "ignore_default_none" \in l.flags
Dumped(l) == l.op = "to_db_dict" /\ l.status = "ok"

\* C13: a to_db_dict that returns holds, for every declared non-identifier
\* field that passes the ignore_unchanged filter, the encoded value under the
\* storage column name unless the value is absent, ignore_default_none is
\* requested and the field does not pass the change predicate; so a field in
\* changedAttributes is there even when absent.  The payload save() hands to
\* create keeps a field by the same rule with ignore_default_none = true (it
\* is keyed by attribute name and holds the attribute values).
C13_InclusionRule ==
  /\ Dumped(last) =>
       \A n \in field_list \ {id_field_name} :
         LET v == get_value(schema, n, attrs[n])
             c == db_column_name(n)
         IN (~IgnoreUnchanged(last) \/ PassesChangePredicate(n)) =>
              /\ c \in DOMAIN ret <=>
                   ~(v = None /\ IgnoreDefaultNone(last) /\ ~PassesChangePredicate(n))
              /\ c \in DOMAIN ret => ret[c] = v
              /\ n \in field_changed => c \in DOMAIN ret
  /\ last.op = "save" =>
       \A n \in field_list \ {id_field_name} :
         /\ n \in DOMAIN ret <=> ~(attrs[n] = None /\ ~PassesChangePredicate(n))
         /\ n \in DOMAIN ret => ret[n] = attrs[n]

\* a dump with ignore_default_none holds the absent value of the changed
\* attribute name under its column, and leaves out the absent, unchanged tags
C13_Witness ==
  /\ Dumped(last) /\ IgnoreDefaultNone(last)
  /\ "name" \in field_changed /\ attrs["name"] = None
  /\ "tags" \notin field_changed /\ attrs["tags"] = None
  /\ "full_name" \in DOMAIN ret /\ ret["full_name"] = None
  /\ "tags" \notin DOMAIN ret

C15_IdentifierLeftOut ==
  ~schema.include_in_document =>
    /\ \A iu \in BOOLEAN, idn \in BOOLEAN :
         db_column_name(id_field_name)
           \notin DOMAIN to_db_dict(schema, Self, iu, idn).dict
    /\ last.op = "to_db_dict" => db_column_name(id_field_name) \notin DOMAIN ret

\* a returning dump of an entity whose identifier was generated by a read and
\* thereby entered changedAttributes, under a schema that leaves it out
C15_Witness ==
  /\ Dumped(last)
  /\ ~schema.include_in_document
  /\ attrs[id_field_name] = GeneratedId
  /\ id_field_name \in field_changed
  /\ "updated" \in DOMAIN ret

\* the position of a declared field in declaration order
FieldIndex(n) == CHOOSE i \in 1..Len(field_order) : field_order[i] = n

\* the fields whose descriptor fails on the value a to_db_dict call hands it
FailingFields(ignore_unchanged) ==
  {n \in field_list :
     /\ ~(IsIDField(n) /\ ~schema.include_in_document)
     /\ (~ignore_unchanged \/ PassesChangePredicate(n))
     /\ get_value(schema, n, attrs[n]) = RequiredField}

\* C16: a to_db_dict call ends with the structured serialization error exactly
\* when a descriptor fails on a value it encodes; the error names the first
\* failing attribute as its path, no other error ends the call, and a failed
\* call leaves attributes, changedAttributes and extraAttributes as they were.
C16_DescriptorFailureIsWrapped ==
  [][ last'.op = "to_db_dict"
      => LET failing == FailingFields(IgnoreUnchanged(last'))
         IN /\ last'.status \in {"ok", "ModelSerializingWrappedError"}
            /\ last'.status = "ModelSerializingWrappedError" <=> failing # {}
            /\ failing # {} =>
                 /\ \E n \in failing :
                      /\ last'.arg = <<n>>
                      /\ \A m \in failing : FieldIndex(n) <= FieldIndex(m)
                 /\ ret' = << >>
                 /\ UNCHANGED <<attrs, xattrs, field_changed, extra_fields>> ]_vars

\* a dump has failed on the required name, assigned absent, of an entity that
\* carries a changed identifier
C16_Witness ==
  /\ last.op = "to_db_dict"
  /\ last.status = "ModelSerializingWrappedError"
  /\ last.arg = <<"name">>
  /\ field_changed = {"id", "name"}
  /\ attrs["id"] # None

\* the identifier as the descriptor resolves it
ResolvedId == id_get(schema, Self).value

ExplicitUpdate(l) ==
  l.op = "update" /\ l.status = "delegated" /\ Truthy(l.arg) /\ ~HasPlaceholder(l.arg)
ImplicitUpdate(l) == l.op = "update" /\ l.status = "delegated" /\ ~Truthy(l.arg)

\* C17 as stated: update(key=K) with a placeholder-free K = p/c/i reaches the
\* delegation with parent p, identifier i and cached key p/collection/i; and
\* update() on an entity whose key is resolved leaves parent, identifier and
\* key as they were.
C17_Original ==
  [][ /\ ExplicitUpdate(last') =>
           /\ parent' = get_parent_doc(last'.arg)
           /\ attrs'[id_field_name] = get_id(last'.arg)
           /\ key_cache' = ComposedKey(parent', get_id(last'.arg))
      /\ (ImplicitUpdate(last') /\ ~HasPlaceholder(KeyValue)) =>
           /\ parent' = parent
           /\ ResolvedId' = ResolvedId
           /\ KeyValue' = KeyValue ]_vars

\* C17 amended: update(key=K) with a placeholder-free K = p/c/i reaches the
\* delegation with parent p, identifier i and cached key p/collection/i; and
\* update() on an entity whose key is resolved leaves parent and key as they
\* were and sets the identifier to the last segment of that key, which is the
\* identifier as it was unless the identifier attribute was reassigned after
\* the key was cached.
C17_UpdateRederivesFromKey ==
  [][ /\ ExplicitUpdate(last') =>
           /\ parent' = get_parent_doc(last'.arg)
           /\ attrs'[id_field_name] = get_id(last'.arg)
           /\ key_cache' = ComposedKey(parent', get_id(last'.arg))
           /\ ret' = ("key" :> key_cache')
      /\ (ImplicitUpdate(last') /\ ~HasPlaceholder(KeyValue)) =>
           /\ parent' = parent
           /\ KeyValue' = KeyValue
           /\ attrs'[id_field_name] = get_id(KeyValue)
           /\ ResolvedId = get_id(KeyValue) => ResolvedId' = ResolvedId ]_vars

\* an update under the explicit key a/other/u1 has been delegated: the parent
\* is a and the cached key names the entity's own collection
C17_Witness ==
  /\ ExplicitUpdate(last)
  /\ last.arg = <<"a", Sep, "other", Sep, "u1">>
  /\ parent = <<"a">>
  /\ attrs[id_field_name] = <<"u1">>
  /\ key_cache = <<"a", Sep, "users", Sep, "u1">>

\* C18: the identifier setter always assigns the identifier attribute and
\* touches nothing else but the cached key: an empty or absent identifier
\* leaves the cached key exactly as it was, a non-empty identifier i makes it
\* parent/collection/i without a leading separator.
C18_IdentifierSetter ==
  [][ last'.op = "set_id"
      => /\ attrs' = [attrs EXCEPT ![id_field_name] = last'.arg]
         /\ parent' = parent
         /\ ~Truthy(last'.arg) => key_cache' = key_cache
         /\ Truthy(last'.arg) =>
              /\ key_cache' = ComposedKey(parent, last'.arg)
              /\ key_cache'[1] # Sep
              /\ KeyValue' = key_cache' ]_vars

\* the identifier setter was given the empty string on an entity with a
\* cached key: the attribute is empty and the cached key is still there
C18_Witness ==
  /\ last.op = "set_id" /\ last.arg = EmptyStr
  /\ attrs[id_field_name] = EmptyStr
  /\ key_cache = <<"a", Sep, "users", Sep, "u1">>

\* C19: reading key while the identifier is unresolved returns the placeholder
\* key and caches nothing: no key read, to_dict, assignment, load, update() or
\* refresh() on an entity without cached key and without resolvable identifier
\* sets the cached key, which never holds the placeholder; so once the
\* identifier setter is given a non-empty i, key is parent/collection/i and no
\* longer the placeholder key.
C19_PlaceholderKeyNotCached ==
  [][ /\ Truthy(key_cache') => ~HasPlaceholder(key_cache')
      /\ (~Truthy(key_cache) /\ ~IdResolvable
            /\ last'.op # "set_id" /\ ~ExplicitUpdate(last'))
           => ~Truthy(key_cache')
      /\ (last'.op = "key" /\ ~Truthy(key_cache) /\ ~IdResolvable)
           => ret' = ("key" :> ComposedKey(parent, <<Placeholder>>))
      /\ (last'.op = "set_id" /\ Truthy(last'.arg))
           => /\ KeyValue' = ComposedKey(parent', last'.arg)
              /\ ~HasPlaceholder(KeyValue') ]_vars

\* key was read, and returned the placeholder key, on an entity that went
\* through a load of the extra field x and an assignment: nothing is cached
C19_Witness ==
  /\ last.op = "key"
  /\ ret = ("key" :> <<"a", Sep, "users", Sep, Placeholder>>)
  /\ "x" \in DOMAIN xattrs
  /\ "name" \in field_changed
  /\ key_cache = None

\* C20: a populate_from_doc_dict that fails with the unknown-fields error
\* assigns no declared attribute and leaves changedAttributes as it was; with
\* merge=true the whole entity is as before the call, with merge=false the only
\* change is that the extra attributes tracked before are gone from the
\* instance and extraAttributes is empty.
C20_RejectedLoadAssignsNothing ==
  [][ (IsLoad(last') /\ last'.status = "NotImplementedError")
      => /\ attrs' = attrs
         /\ field_changed' = field_changed
         /\ UNCHANGED <<key_cache, parent>>
         /\ Merge(last') => UNCHANGED <<xattrs, extra_fields>>
         /\ ~Merge(last') =>
              /\ extra_fields' = {}
              /\ xattrs' = [n \in (DOMAIN xattrs) \ extra_fields |-> xattrs[n]] ]_vars

\* a replacing load of a document carrying name and the unknown key x has been
\* refused on an entity holding a changed name and an untracked extra: the
\* name is still absent and changed, the untracked extra is still there
C20_Witness ==
  /\ IsLoad(last) /\ last.status = "NotImplementedError"
  /\ ~Merge(last)
  /\ last.keys = {"name", "x"}
  /\ attrs["name"] = None /\ field_changed = {"name"}
  /\ extra_fields = {} /\ DOMAIN xattrs = {"x"}
====
